---- MODULE Spec2Model ----
(***************************************************************************)
(* Verification model of the Z-order index encoding                        *)
(* (go/libraries/doltcore/sqle/index/z_encoding.go) and of the prolly      *)
(* range search exercised by TestRangeBounds / TestRangeSearch.            *)
(*                                                                         *)
(* A uint64 is modelled at its full width as the set of the positions      *)
(* (0 = least significant .. 63) of its 1 bits, so the bitwise operators   *)
(* of the source are set operations and shifts lose the bits that leave    *)
(* the word exactly as in Go.  A ZVal is the pair <<z[0], z[1]>> of the    *)
(* source, written <<high word, low word>>; TLA+ tuples are 1-indexed, so  *)
(* z[1] below is the source's z[0].                                        *)
(*                                                                         *)
(* Six specifications share the module: Spec runs SplitZRanges on the      *)
(* ZRange of a bounding box, SpecSearch runs the two range searches over   *)
(* a leaf and then iterates over the range, SpecCell applies ZCell and     *)
(* ZMask, SpecLex applies LexFloat and UnLexFloat, SpecPoint applies       *)
(* ZValue and UnZValue to two points, SpecServer runs Serve and            *)
(* GracefulStop of a remotesrv Server (remotesrv/server.go).  Each leaves  *)
(* the others' variables at their idle values.                             *)
(***************************************************************************)
EXTENDS Integers, Sequences, FiniteSets, TLC

VARIABLES
    bbox,   \* SplitZRanges: the bounding box the outermost call is made for
    stack,  \* SplitZRanges: the calls in progress, outermost first
    ret,    \* SplitZRanges: the argument and the result of the call that returned last
    node,   \* range search: the keys of the leaf, in leaf order
    rng,    \* range search: the Range searched for
    phase,  \* range search: "start", "stop", "done" or "iter"; "idle" outside SpecSearch
    si, sj, \* range search: the window [i, j) of the binary search in progress
    idxLo,  \* range search: the index the start search returned
    idxHi,  \* range search: the index the stop search returned
    cur,    \* range iterator: the index of the key the next call of Next yields
    yielded, \* range iterator: the indexes of the keys Next has yielded, in order
    eofs,   \* range iterator: the number of calls of Next that returned io.EOF
    level,  \* ZMask: the level argument
    zarg,   \* ZMask: the ZVal argument
    cell,   \* ZCell, ZMask: the Cell returned, <<>> before the call
    fin,    \* LexFloat, UnLexFloat: the pair of words the functions are applied to
    fout,   \* LexFloat, UnLexFloat: the function applied last and its results
    pts,    \* ZValue: the points p and q, each <<X, Y>> as float64 bit patterns
    zs,     \* ZValue: the ZVals of p and q, <<>> before the call
    back,   \* UnZValue: the points of the ZVals of p and q, <<>> before the call
    samePort, \* Server: httpPort == grpcPort
    wg,     \* Server: the counter of s.wg
    stopChan, \* Server: "open" or "closed"
    httpSrv, \* Server: "new", or "shutdown" once Shutdown was called
    grpcSrv, \* Server: "new", or "stopped" once GracefulStop was called
    gos,    \* Server: where each goroutine of Serve is
    servePc, \* Server: where the call of Serve is
    stopPc  \* Server: where the call of GracefulStop is

zvars == <<bbox, stack, ret>>

ivars == <<cur, yielded, eofs>>

svars == <<node, rng, phase, si, sj, idxLo, idxHi, ivars>>

evars == <<level, zarg, cell, fin, fout, pts, zs, back>>

rvars == <<samePort, wg, stopChan, httpSrv, grpcSrv, gos, servePc, stopPc>>

vars == <<zvars, svars, evars, rvars>>

----------------------------------------------------------------------------
(* Bounds of the model *)

\* coordinates take the cell numbers 0..MaxCell inside a bit window
MaxCell == 3
\* the recursion of SplitZRanges is followed up to this stack depth
MaxDepth == 130
\* a leaf holds at most MaxLeaf keys
MaxLeaf == 3
\* Next is called at most MaxEOF times on an exhausted iterator
MaxEOF == 2

----------------------------------------------------------------------------
(* uint64 arithmetic on sets of bit positions *)

BitIdx == 0..63

MaxUint64 == BitIdx

SetMax(S) == CHOOSE m \in S : \A k \in S : k <= m

SetMin(S) == CHOOSE m \in S : \A k \in S : m <= k

And64(a, b) == a \cap b

Or64(a, b) == a \cup b

Xor64(a, b) == (a \ b) \cup (b \ a)

Not64(a) == BitIdx \ a

\* a >> k ; a shift by 64 or more gives 0
Shr64(a, k) == {i - k : i \in {j \in a : j >= k}}

\* a << k ; bits shifted past bit 63 are lost
Shl64(a, k) == {i + k : i \in {j \in a : j + k <= 63}}

\* bits.Len64
Len64(a) == IF a = {} THEN 0 ELSE SetMax(a) + 1

\* bits.LeadingZeros64
LeadingZeros64(a) == 64 - Len64(a)

\* a - b modulo 2^64, by the borrow chain
Sub64(a, b) ==
    LET bit(w, i) == IF i \in w THEN 1 ELSE 0
        borrow[i \in 0..63] ==
            IF i = 0 THEN 0
            ELSE IF bit(a, i - 1) - bit(b, i - 1) - borrow[i - 1] < 0 THEN 1 ELSE 0
    IN  {i \in BitIdx : (bit(a, i) + bit(b, i) + borrow[i]) % 2 = 1}

\* unsigned a < b
Less64(a, b) == a # b /\ SetMax(Xor64(a, b)) \in b

\* the integer n (0 <= n < 256) as a word
Word(n) == {k \in 0..7 : (n \div (2 ^ k)) % 2 = 1}

Mask0000FFFF0000FFFF == {i \in BitIdx : (i \div 16) % 2 = 0}

Mask00FF00FF00FF00FF == {i \in BitIdx : (i \div 8) % 2 = 0}

Mask0F0F0F0F0F0F0F0F == {i \in BitIdx : (i \div 4) % 2 = 0}

Mask3333333333333333 == {i \in BitIdx : (i \div 2) % 2 = 0}

Mask5555555555555555 == {i \in BitIdx : i % 2 = 0}

MaskAAAAAAAAAAAAAAAA == {i \in BitIdx : i % 2 = 1}

MaskFFFFFFFF == 0..31

----------------------------------------------------------------------------
(* LexFloat, InterleaveUInt64, ZValue *)

\* LexFloat that flips the sign bit of every float
LexFloat_SignBitOnly(f) == Xor64(f, {63})

\* a float64 is its IEEE-754 bit pattern (math.Float64bits)
LexFloat(f) ==
    IF 63 \in f THEN Not64(f) ELSE Xor64(f, {63})

\* UnLexFloat that flips the sign bit of every word
UnLexFloat_SignBitOnly(b) == Xor64(b, {63})

UnLexFloat(b) ==
    IF 63 \in b THEN Xor64(b, {63}) ELSE Not64(b)

InterleaveUInt64(x, y) ==
    LET x1 == And64(Or64(x, Shl64(x, 16)), Mask0000FFFF0000FFFF)
        y1 == And64(Or64(y, Shl64(y, 16)), Mask0000FFFF0000FFFF)
        x2 == And64(Or64(x1, Shl64(x1, 8)), Mask00FF00FF00FF00FF)
        y2 == And64(Or64(y1, Shl64(y1, 8)), Mask00FF00FF00FF00FF)
        x3 == And64(Or64(x2, Shl64(x2, 4)), Mask0F0F0F0F0F0F0F0F)
        y3 == And64(Or64(y2, Shl64(y2, 4)), Mask0F0F0F0F0F0F0F0F)
        x4 == And64(Or64(x3, Shl64(x3, 2)), Mask3333333333333333)
        y4 == And64(Or64(y3, Shl64(y3, 2)), Mask3333333333333333)
        x5 == And64(Or64(x4, Shl64(x4, 1)), Mask5555555555555555)
        y5 == And64(Or64(y4, Shl64(y4, 1)), Mask5555555555555555)
    IN  Or64(x5, Shl64(y5, 1))

\* ZValue with the interleaved low halves in the first word
ZValue_LowWordFirst(px, py) ==
    LET xLex == LexFloat(px)
        yLex == LexFloat(py)
    IN  << InterleaveUInt64(And64(xLex, MaskFFFFFFFF), And64(yLex, MaskFFFFFFFF)),
           InterleaveUInt64(Shr64(xLex, 32), Shr64(yLex, 32)) >>

\* ZValue of the point (px, py)
ZValue(px, py) ==
    LET xLex == LexFloat(px)
        yLex == LexFloat(py)
    IN  << InterleaveUInt64(Shr64(xLex, 32), Shr64(yLex, 32)),
           InterleaveUInt64(And64(xLex, MaskFFFFFFFF), And64(yLex, MaskFFFFFFFF)) >>

\* one half of UnInterleaveUint64 without the stage that shifts by 4
Compact32_NoShiftBy4(x) ==
    LET x1 == And64(x, Mask5555555555555555)
        x2 == And64(Or64(x1, Shr64(x1, 1)), Mask3333333333333333)
        x3 == And64(Or64(x2, Shr64(x2, 2)), Mask0F0F0F0F0F0F0F0F)
        x4 == And64(x3, Mask00FF00FF00FF00FF)
        x5 == And64(Or64(x4, Shr64(x4, 8)), Mask0000FFFF0000FFFF)
    IN  And64(Or64(x5, Shr64(x5, 16)), MaskFFFFFFFF)

\* lines 97-123, one of x and y: the even bits of the word moved together
Compact32(x) ==
    LET x1 == And64(x, Mask5555555555555555)
        x2 == And64(Or64(x1, Shr64(x1, 1)), Mask3333333333333333)
        x3 == And64(Or64(x2, Shr64(x2, 2)), Mask0F0F0F0F0F0F0F0F)
        x4 == And64(Or64(x3, Shr64(x3, 4)), Mask00FF00FF00FF00FF)
        x5 == And64(Or64(x4, Shr64(x4, 8)), Mask0000FFFF0000FFFF)
    IN  And64(Or64(x5, Shr64(x5, 16)), MaskFFFFFFFF)

\* lines 94-125: <<x, y>>, x from z and y from z >> 1
UnInterleaveUint64(z) == << Compact32(z), Compact32(Shr64(z, 1)) >>

\* lines 141-147: the point <<X, Y>> of a ZVal
UnZValue(z) ==
    LET l == UnInterleaveUint64(z[1])
        r == UnInterleaveUint64(z[2])
    IN  << UnLexFloat(Or64(Shl64(l[1], 32), r[1])),
           UnLexFloat(Or64(Shl64(l[2], 32), r[2])) >>

\* lines 135-136: the arguments ZValue passes to InterleaveUInt64
ZValueArgs(px, py) ==
    { Shr64(LexFloat(px), 32), Shr64(LexFloat(py), 32),
      And64(LexFloat(px), MaskFFFFFFFF), And64(LexFloat(py), MaskFFFFFFFF) }

----------------------------------------------------------------------------
(* Order on ZVals: lexicographic over (high word, low word) *)

ZLess(z1, z2) ==
    \/ Less64(z1[1], z2[1])
    \/ z1[1] = z2[1] /\ Less64(z1[2], z2[2])

ZLeq(z1, z2) == z1 = z2 \/ ZLess(z1, z2)

----------------------------------------------------------------------------
(* SplitZRanges: the parts of one call *)

\* line 192: a point lookup
IsPoint(zRange) == zRange[1] = zRange[2]

\* line 199: the word the range is split in is the high word
SplitsHighWord(zRange) == zRange[1][1] # zRange[2][1]

\* lines 200, 219
PrefixLength(zRange) ==
    IF SplitsHighWord(zRange)
    THEN LeadingZeros64(Xor64(zRange[1][1], zRange[2][1]))
    ELSE LeadingZeros64(Xor64(zRange[1][2], zRange[2][2]))

\* IsCell with the test of the low words (zl[1] == 0 && zh[1] == MaxUint64) left out
IsCell_NoLowWordTest(zRange) ==
    LET zl == zRange[1]
        zh == zRange[2]
        mask == Shr64(MaxUint64,
                      IF zl[1] # zh[1] THEN LeadingZeros64(Xor64(zl[1], zh[1]))
                                       ELSE LeadingZeros64(Xor64(zl[2], zh[2])))
    IN  IF zl[1] # zh[1]
        THEN And64(zl[1], mask) = {} /\ And64(zh[1], mask) = mask
        ELSE And64(zl[2], mask) = {} /\ And64(zh[2], mask) = mask

\* lines 202-203, 221-222: the suffixes of the bounds range from 00...0 to 11...1
IsCell(zRange) ==
    LET zl == zRange[1]
        zh == zRange[2]
        mask == Shr64(MaxUint64, PrefixLength(zRange))
    IN  IF SplitsHighWord(zRange)
        THEN /\ zl[2] = {}
             /\ zh[2] = MaxUint64
             /\ And64(zl[1], mask) = {}
             /\ And64(zh[1], mask) = mask
        ELSE /\ And64(zl[2], mask) = {}
             /\ And64(zh[2], mask) = mask

\* LeftRange that fills the suffix with 1s but does not clear its first bit
LeftRange_FirstBitKept(zRange) ==
    LET zl == zRange[1]
        zh == zRange[2]
        prefixLength == PrefixLength(zRange)
    IN  IF SplitsHighWord(zRange)
        THEN << zl,
                << Or64(zh[1], Shr64(MaskAAAAAAAAAAAAAAAA, prefixLength)),
                   Or64(zh[2], Shr64(MaskAAAAAAAAAAAAAAAA, prefixLength % 2)) >> >>
        ELSE << zl,
                << zh[1], Or64(zh[2], Shr64(MaskAAAAAAAAAAAAAAAA, prefixLength)) >> >>

\* lines 207-210, 226-228: zRangeL, the input with its upper bound replaced
LeftRange(zRange) ==
    LET zl == zRange[1]
        zh == zRange[2]
        prefixLength == PrefixLength(zRange)
        suffixLength == 64 - prefixLength
        firstSuffixBit == Shl64({0}, suffixLength - 1)
    IN  IF SplitsHighWord(zRange)
        THEN << zl,
                << And64(Or64(zh[1], Shr64(MaskAAAAAAAAAAAAAAAA, prefixLength)),
                         Not64(firstSuffixBit)),
                   Or64(zh[2], Shr64(MaskAAAAAAAAAAAAAAAA, prefixLength % 2)) >> >>
        ELSE << zl,
                << zh[1],
                   And64(Or64(zh[2], Shr64(MaskAAAAAAAAAAAAAAAA, prefixLength)),
                         Not64(firstSuffixBit)) >> >>

\* lines 212-216, 230-233: zRangeR, the input with its lower bound replaced
RightRange(zRange) ==
    LET zl == zRange[1]
        zh == zRange[2]
        prefixLength == PrefixLength(zRange)
        suffixLength == 64 - prefixLength
        firstSuffixBit == Shl64({0}, suffixLength - 1)
        suffixMask == Or64(Shl64(MaxUint64, suffixLength),
                           Shr64(Mask5555555555555555, prefixLength))
    IN  IF SplitsHighWord(zRange)
        THEN << << Or64(And64(zl[1], suffixMask), firstSuffixBit),
                   And64(zl[2], Shr64(MaskAAAAAAAAAAAAAAAA, prefixLength % 2)) >>,
                zh >>
        ELSE << << zl[1],
                   Or64(And64(zl[2], suffixMask), firstSuffixBit) >>,
                zh >>

\* MergeZRanges that extends the left's last range but keeps the right's first
MergeZRanges_RightNotDropped(zRangesL, zRangesR) ==
    LET lastZRangeL == zRangesL[Len(zRangesL)]
        firstZRangeR == zRangesR[1]
    IN  IF /\ firstZRangeR[1][1] = lastZRangeL[2][1]
           /\ Sub64(firstZRangeR[1][2], lastZRangeL[2][2]) = {0}
        THEN SubSeq(zRangesL, 1, Len(zRangesL) - 1)
                 \o << << lastZRangeL[1], firstZRangeR[2] >> >>
                 \o zRangesR
        ELSE zRangesL \o zRangesR

\* lines 240-248: merge the boundary and append
MergeZRanges(zRangesL, zRangesR) ==
    LET lastZRangeL == zRangesL[Len(zRangesL)]
        firstZRangeR == zRangesR[1]
    IN  IF /\ firstZRangeR[1][1] = lastZRangeL[2][1]
           /\ Sub64(firstZRangeR[1][2], lastZRangeL[2][2]) = {0}
        THEN SubSeq(zRangesL, 1, Len(zRangesL) - 1)
                 \o << << lastZRangeL[1], firstZRangeR[2] >> >>
                 \o Tail(zRangesR)
        ELSE zRangesL \o zRangesR

----------------------------------------------------------------------------
(* The bounding boxes the split is run on *)

\* the low bit of the window in which the coordinates of a box vary: the lowest
\* bits, the bits on both sides of the 32-bit boundary that separates the two
\* words of a ZVal, and the highest bits
WinLos == {0, 31, 62}

\* the lex code with cell number w at bit lo; below the window all 0s or all 1s
LexCoord(lo, w, fill) ==
    (IF lo = 62 THEN {} ELSE {63})
        \cup Shl64(Word(w), lo)
        \cup (IF fill THEN 0..(lo - 1) ELSE {})

IsNaN(f) == (52..62) \subseteq f /\ f \cap (0..51) # {}

\* lower and upper corners are aligned to the cells of the window, so that the
\* number of ranges of a split stays small
MinCoords(lo) == {LexCoord(lo, w, FALSE) : w \in 0..MaxCell}

MaxCoords(lo) == {LexCoord(lo, w, TRUE) : w \in 0..MaxCell}

\* <<xmin, ymin, xmax, ymax>> as float64 bit patterns (spatial.FindBBox)
BBoxes ==
    LET lexBoxes == UNION {
            {b \in MinCoords(lo) \X MinCoords(lo) \X MaxCoords(lo) \X MaxCoords(lo) :
                /\ b[1] = b[3] \/ Less64(b[1], b[3])
                /\ b[2] = b[4] \/ Less64(b[2], b[4])} : lo \in WinLos}
    IN  {f \in {<<UnLexFloat(b[1]), UnLexFloat(b[2]), UnLexFloat(b[3]), UnLexFloat(b[4])>> :
                    b \in lexBoxes} :
            \A k \in 1..4 : ~IsNaN(f[k])}

\* lines 168-169: the ZRange of a bounding box
ZRangeOf(b) == << ZValue(b[1], b[2]), ZValue(b[3], b[4]) >>

----------------------------------------------------------------------------
(* SplitZRanges as a machine: one frame of the stack per call in progress *)

\* line 198: zRangeL, zRangeR := zRange, zRange
Frame(zRange) ==
    [zRange |-> zRange, pc |-> "call", zRangeL |-> zRange, zRangeR |-> zRange,
     zRangesL |-> <<>>]

Top == stack[Len(stack)]

Pop == SubSeq(stack, 1, Len(stack) - 1)

\* the goroutines Serve starts
Goroutines == {"grpcServe", "grpcStop", "httpServe", "httpStop"}

\* no Server
ServerIdle ==
    /\ samePort = TRUE
    /\ wg = 0
    /\ stopChan = "open"
    /\ httpSrv = "new"
    /\ grpcSrv = "new"
    /\ gos = [g \in Goroutines |-> "unstarted"]
    /\ servePc = "idle"
    /\ stopPc = "idle"

\* ZCell, ZMask, LexFloat and UnLexFloat not called
EncodeIdle ==
    /\ level = 0
    /\ zarg = <<{}, {}>>
    /\ cell = <<>>
    /\ fin = <<{}, {}>>
    /\ fout = [fn |-> "none", out |-> <<>>]
    /\ pts = << <<{}, {}>>, <<{}, {}>> >>
    /\ zs = <<>>
    /\ back = <<>>

\* the range search at rest
SearchIdle ==
    /\ node = <<>>
    /\ rng = [Start |-> <<>>, Stop |-> <<>>]
    /\ phase = "idle"
    /\ si = 0 /\ sj = 0 /\ idxLo = 0 /\ idxHi = 0
    /\ cur = 0 /\ yielded = <<>> /\ eofs = 0

Init ==
    /\ bbox \in BBoxes
    /\ stack = << Frame(ZRangeOf(bbox)) >>
    /\ ret = [arg |-> ZRangeOf(bbox), val |-> <<>>]
    /\ SearchIdle
    /\ ServerIdle
    /\ EncodeIdle

\* lines 192-194, 203-205, 222-224: return []ZRange{zRange}
ReturnSingle ==
    /\ stack # <<>>
    /\ Top.pc = "call"
    /\ IsPoint(Top.zRange) \/ IsCell(Top.zRange)
    /\ ret' = [arg |-> Top.zRange, val |-> << Top.zRange >>]
    /\ stack' = Pop
    /\ UNCHANGED <<bbox, svars, evars, rvars>>

\* lines 207-237: compute both halves and recurse on the left one
SplitAndRecurseLeft ==
    /\ stack # <<>>
    /\ Top.pc = "call"
    /\ ~(IsPoint(Top.zRange) \/ IsCell(Top.zRange))
    /\ Len(stack) < MaxDepth
    /\ LET zRangeL == LeftRange(Top.zRange)
           zRangeR == RightRange(Top.zRange)
       IN  stack' = Pop \o << [Top EXCEPT !.pc = "left",
                                           !.zRangeL = zRangeL,
                                           !.zRangeR = zRangeR],
                              Frame(zRangeL) >>
    /\ UNCHANGED <<bbox, ret, svars, evars, rvars>>

\* lines 237-238: the left call has returned, recurse on the right half
RecurseRight ==
    /\ stack # <<>>
    /\ Top.pc = "left"
    /\ stack' = Pop \o << [Top EXCEPT !.pc = "right", !.zRangesL = ret.val],
                          Frame(Top.zRangeR) >>
    /\ UNCHANGED <<bbox, ret, svars, evars, rvars>>

\* lines 238-248: the right call has returned, merge and return
MergeAndReturn ==
    /\ stack # <<>>
    /\ Top.pc = "right"
    /\ ret' = [arg |-> Top.zRange, val |-> MergeZRanges(Top.zRangesL, ret.val)]
    /\ stack' = Pop
    /\ UNCHANGED <<bbox, svars, evars, rvars>>

Next ==
    \/ ReturnSingle
    \/ SplitAndRecurseLeft
    \/ RecurseRight
    \/ MergeAndReturn

Spec == Init /\ [][Next]_vars

\* the outermost call has returned
Done == stack = <<>>

\* a call has just returned ret.val for the argument ret.arg
Returned == ret.val # <<>>

----------------------------------------------------------------------------
(* Vocabulary of the claims about SplitZRanges *)

\* the 128 bits of a ZVal, bit 127 the most significant
Bits128(z) == z[2] \cup {i + 64 : i \in z[1]}

\* a point, or a common prefix followed by 00...0 in the lower and 11...1 in
\* the upper bound
IsContinuous(r) ==
    LET lo == Bits128(r[1])
        hi == Bits128(r[2])
        d == (lo \ hi) \cup (hi \ lo)
    IN  \/ d = {}
        \/ /\ (0..SetMax(d)) \cap lo = {}
           /\ (0..SetMax(d)) \subseteq hi

\* z2 is the 128-bit successor of z1
IsSuccessor(z1, z2) ==
    \/ /\ z1[1] = z2[1]
       /\ z1[2] # MaxUint64
       /\ Sub64(z2[2], z1[2]) = {0}
    \/ /\ z1[2] = MaxUint64
       /\ z2[2] = {}
       /\ z1[1] # MaxUint64
       /\ Sub64(z2[1], z1[1]) = {0}

InZRange(z, r) == ZLeq(r[1], z) /\ ZLeq(z, r[2])

\* the coordinates the coverage of a result is sampled at: both corners of every
\* cell of every window
SampleFloats ==
    {UnLexFloat(c) : c \in UNION {MinCoords(lo) \cup MaxCoords(lo) : lo \in WinLos}}

Leq64(a, b) == a = b \/ Less64(a, b)

\* the point (px, py) lies in the box, compared as lex codes
InBBox(px, py, b) ==
    /\ Leq64(LexFloat(b[1]), LexFloat(px)) /\ Leq64(LexFloat(px), LexFloat(b[3]))
    /\ Leq64(LexFloat(b[2]), LexFloat(py)) /\ Leq64(LexFloat(py), LexFloat(b[4]))

----------------------------------------------------------------------------
(* Claims C1 - C7: SplitZRanges *)

\* C1: the ranges returned for the ZRange of a box cover exactly the box: a
\* ZVal lies in some returned range iff its coordinates lie in the box.
C1_CoversExactlyTheBox ==
    Done =>
        \A px \in SampleFloats, py \in SampleFloats :
            (\E k \in 1..Len(ret.val) : InZRange(ZValue(px, py), ret.val[k]))
                <=> InBBox(px, py, bbox)

\* C2: the recursion depth of SplitZRanges never exceeds 128.
C2_DepthAtMost128 == Len(stack) <= 128

C4_AscendingDisjoint ==
    Returned =>
        /\ \A k \in 1..Len(ret.val) : ZLeq(ret.val[k][1], ret.val[k][2])
        /\ \A k \in 1..(Len(ret.val) - 1) : ZLess(ret.val[k][2], ret.val[k + 1][1])

C4_Witness ==
    /\ Returned
    /\ Len(ret.val) >= 3
    /\ \E k \in 1..Len(ret.val) : ~IsContinuous(ret.val[k])

\* C5: every returned range lies between the bounds of the call's argument,
\* and in a call on a ZRange (zMin <= zMax) the computed leftUpper is <= zMax
\* and the computed rightLower is >= zMin.
C5_WithinInput ==
    /\ Returned =>
          \A k \in 1..Len(ret.val) :
              /\ ZLeq(ret.arg[1], ret.val[k][1])
              /\ ZLeq(ret.val[k][2], ret.arg[2])
    /\ \A d \in 1..Len(stack) :
          (stack[d].pc # "call" /\ ZLeq(stack[d].zRange[1], stack[d].zRange[2])) =>
              /\ ZLeq(stack[d].zRangeL[2], stack[d].zRange[2])
              /\ ZLeq(stack[d].zRange[1], stack[d].zRangeR[1])

C5_Witness ==
    /\ Returned
    /\ Len(ret.val) >= 2
    /\ \E d \in 1..Len(stack) : stack[d].pc = "right" /\ SplitsHighWord(stack[d].zRange)

\* C6: no returned range ends immediately before the next one begins (its
\* upper bound the 128-bit predecessor of the next lower bound), the carry
\* across the word boundary included.
C6_NoAdjacentRanges ==
    Returned =>
        \A k \in 1..(Len(ret.val) - 1) : ~IsSuccessor(ret.val[k][2], ret.val[k + 1][1])

\* C7: a call returns exactly [zR] when zR is a point or continuous, and at
\* least two ranges for every other argument.
C7_SingleIffContinuous ==
    Returned =>
        IF IsContinuous(ret.arg)
        THEN ret.val = << ret.arg >>
        ELSE Len(ret.val) >= 2

C7_Witness ==
    /\ Done
    /\ ~IsPoint(ret.arg)
    /\ IsContinuous(ret.arg)
    /\ SplitsHighWord(ret.arg)
    /\ ret.val = << ret.arg >>

----------------------------------------------------------------------------
(* Tuples, ranges and the range search.  The tests of the source give the  *)
(* tuples, the ranges and the indexes expected of the searches; the        *)
(* comparison, the two bounds predicates and the searches themselves are   *)
(* not among the source files and follow sections 4.1 - 4.3 of the         *)
(* specification.  A field is <<v>> for the int32 v and <<>> for NULL, a   *)
(* tuple is a sequence of fields, and index k of the source is k + 1 here. *)

\* a NULL field, an absent cut value (nil)
Nil == <<>>

intTuple(a, b) == << <<a>>, <<b>> >>

nine == 9

\* the keys of the test leaf
tuples == <<
    intTuple(1, 1), intTuple(1, 2), intTuple(1, 3),
    intTuple(2, 1), intTuple(2, 2), intTuple(2, 3),
    intTuple(3, 1), intTuple(3, 2), intTuple(3, 3),
    intTuple(4, 1), intTuple(4, 2), intTuple(4, 3),
    << <<nine>>, Nil >>,
    << Nil, <<nine>> >> >>

\* RangeCut{Value: nil}: no constraint on the column
NoCut == [Value |-> Nil, Inclusive |-> FALSE, Null |-> FALSE]

\* RangeCut{Null: true}
NullCut == [Value |-> Nil, Inclusive |-> FALSE, Null |-> TRUE]

\* RangeCut{Value: intVal(v), Inclusive: inc}
ValCut(v, inc) == [Value |-> <<v>>, Inclusive |-> inc, Null |-> FALSE]

\* the ranges of TestRangeSearch, in the order of the table
testRanges == <<
    [Start |-> <<>>, Stop |-> <<>>],
    [Start |-> << ValCut(1, FALSE) >>, Stop |-> <<>>],
    [Start |-> <<>>, Stop |-> << ValCut(1, FALSE) >>],
    [Start |-> << ValCut(2, TRUE) >>, Stop |-> << ValCut(3, TRUE) >>],
    [Start |-> << NullCut >>, Stop |-> << NullCut >>],
    [Start |-> << NoCut, ValCut(1, FALSE) >>, Stop |-> <<>>],
    [Start |-> <<>>, Stop |-> << NoCut, ValCut(1, FALSE) >>],
    [Start |-> << NoCut, ValCut(2, TRUE) >>, Stop |-> << NoCut, ValCut(3, TRUE) >>],
    [Start |-> << NoCut, NullCut >>, Stop |-> << NoCut, NullCut >>] >>

\* the <<lo, hi>> TestRangeSearch expects of the searches, range by range
testLoHi == <<
    <<0, 14>>, <<3, 14>>, <<0, 0>>, <<3, 9>>, <<13, 14>>,
    <<1, 14>>, <<0, 0>>, <<1, 12>>, <<12, 13>> >>

\* the indexes of the tuples TestRangeBounds lists as inside, range by range
testInside == <<
    0..13, 3..12, {}, 3..8, {13},
    {1, 2, 4, 5, 7, 8, 10, 11, 13}, {}, {1, 2, 4, 5, 7, 8, 10, 11}, {12} >>

\* CompareField with NULL greater than any non-NULL
CompareField_NullHighest(a, b) ==
    IF a = Nil /\ b = Nil THEN 0
    ELSE IF a = Nil THEN 1
    ELSE IF b = Nil THEN -1
    ELSE IF a[1] < b[1] THEN -1
    ELSE IF a[1] > b[1] THEN 1
    ELSE 0

\* section 4.1, Compare at one field: NULL is less than any non-NULL
CompareField(a, b) ==
    IF a = Nil /\ b = Nil THEN 0
    ELSE IF a = Nil THEN -1
    ELSE IF b = Nil THEN 1
    ELSE IF a[1] < b[1] THEN -1
    ELSE IF a[1] > b[1] THEN 1
    ELSE 0

\* section 4.1, Compare: lexicographic over the fields
RECURSIVE CompareFrom(_, _, _)
CompareFrom(a, b, k) ==
    IF k > Len(a) THEN 0
    ELSE IF CompareField(a[k], b[k]) # 0 THEN CompareField(a[k], b[k])
    ELSE CompareFrom(a, b, k + 1)

Compare(a, b) == CompareFrom(a, b, 1)

\* section 4.2, AboveStart from cut k on; incl is the Inclusive of the last
\* cut the tuple was equal to
RECURSIVE AboveStartFrom(_, _, _, _)
AboveStartFrom(cuts, t, k, incl) ==
    IF k > Len(cuts) THEN incl
    ELSE IF cuts[k].Null THEN t[k] = Nil /\ AboveStartFrom(cuts, t, k + 1, incl)
    ELSE IF cuts[k].Value = Nil THEN AboveStartFrom(cuts, t, k + 1, incl)
    ELSE IF CompareField(t[k], cuts[k].Value) > 0 THEN TRUE
    ELSE IF CompareField(t[k], cuts[k].Value) < 0 THEN FALSE
    ELSE AboveStartFrom(cuts, t, k + 1, cuts[k].Inclusive)

AboveStart(r, t) == AboveStartFrom(r.Start, t, 1, TRUE)

\* section 4.2, BelowStop: symmetric against Stop
RECURSIVE BelowStopFrom(_, _, _, _)
BelowStopFrom(cuts, t, k, incl) ==
    IF k > Len(cuts) THEN incl
    ELSE IF cuts[k].Null THEN t[k] = Nil /\ BelowStopFrom(cuts, t, k + 1, incl)
    ELSE IF cuts[k].Value = Nil THEN BelowStopFrom(cuts, t, k + 1, incl)
    ELSE IF CompareField(t[k], cuts[k].Value) < 0 THEN TRUE
    ELSE IF CompareField(t[k], cuts[k].Value) > 0 THEN FALSE
    ELSE BelowStopFrom(cuts, t, k + 1, cuts[k].Inclusive)

BelowStop(r, t) == BelowStopFrom(r.Stop, t, 1, TRUE)

\* section 4.2, Membership
Contains(r, t) == AboveStart(r, t) /\ BelowStop(r, t)

----------------------------------------------------------------------------
(* Leaves and ranges the searches are run on *)

\* the int32 values of the generated keys and cuts
FieldVals == {1, 2}

Fields == {Nil} \cup {<<v>> : v \in FieldVals}

\* the keys are in ascending order of Compare
IsAscending(nd) == \A k \in 1..(Len(nd) - 1) : Compare(nd[k], nd[k + 1]) < 0

\* the leaves of n keys over two columns, keys ascending
RECURSIVE LeavesOfLen(_)
LeavesOfLen(n) ==
    IF n = 0 THEN {<<>>}
    ELSE {Append(p[1], p[2]) :
            p \in {q \in LeavesOfLen(n - 1) \X (Fields \X Fields) :
                      n = 1 \/ Compare(q[1][n - 1], q[2]) < 0}}

Leaves == UNION {LeavesOfLen(n) : n \in 0..MaxLeaf}

\* the <<Start cut, Stop cut>> a range can have on one column: none, IS NULL
\* (a Null cut on both sides), a lower bound, an upper bound, or both
ColumnBounds ==
    {<<NoCut, NoCut>>, <<NullCut, NullCut>>}
        \cup {<<ValCut(v, inc), NoCut>> : v \in FieldVals, inc \in BOOLEAN}
        \cup {<<NoCut, ValCut(v, inc)>> : v \in FieldVals, inc \in BOOLEAN}
        \cup {<<ValCut(c[1], c[2]), ValCut(c[3], c[4])>> :
                c \in {d \in FieldVals \X BOOLEAN \X FieldVals \X BOOLEAN : d[1] <= d[3]}}

\* a side of a range ends at its last constrained column and is nil when no
\* column is constrained, as in the ranges of the tests
CutList(c0, c1) ==
    IF c1 # NoCut THEN <<c0, c1>>
    ELSE IF c0 # NoCut THEN <<c0>>
    ELSE <<>>

Ranges ==
    {[Start |-> CutList(b[1][1], b[2][1]), Stop |-> CutList(b[1][2], b[2][2])] :
        b \in ColumnBounds \X ColumnBounds}

\* every cut of the side bounds a value, none skips a column or asks for NULL
IsValuePrefix(cuts) == \A k \in 1..Len(cuts) : cuts[k].Value # Nil

\* no cut of the side skips a column
NoColumnSkipped(cuts) == \A k \in 1..Len(cuts) : cuts[k] # NoCut

----------------------------------------------------------------------------
(* The searches of TestRangeSearch as a machine: the start search, then    *)
(* the stop search, each a binary search over [0, n) probing one key per   *)
(* step                                                                    *)

\* nd.getKey(k), k counted from 0
key(k) == node[k + 1]

InitSearch ==
    /\ \/ node \in Leaves /\ rng \in Ranges
       \/ node = tuples /\ rng \in {testRanges[k] : k \in 1..Len(testRanges)}
    /\ phase = "start"
    /\ si = 0
    /\ sj = Len(node)
    /\ idxLo = 0
    /\ idxHi = 0
    /\ cur = 0
    /\ yielded = <<>>
    /\ eofs = 0
    /\ bbox = <<{}, {}, {}, {}>>
    /\ stack = <<>>
    /\ ret = [arg |-> ZRangeOf(bbox), val |-> <<>>]
    /\ EncodeIdle
    /\ ServerIdle

\* Probe with the found index dropped from the window (j = h - 1)
Probe_FoundIndexDropped(found) ==
    LET h == (si + sj) \div 2
    IN  IF ~found THEN si' = h + 1 /\ sj' = sj
        ELSE sj' = h - 1 /\ si' = si

\* one probe of a binary search for the first index at which found holds:
\* h := (i + j) / 2; if !found(h) { i = h + 1 } else { j = h }
Probe(found) ==
    LET h == (si + sj) \div 2
    IN  IF ~found THEN si' = h + 1 /\ sj' = sj
        ELSE sj' = h /\ si' = si

\* rangeStartSearchFn: a probe, found is AboveStart
StartSearchProbe ==
    /\ phase = "start"
    /\ si < sj
    /\ Probe(AboveStart(rng, key((si + sj) \div 2)))
    /\ UNCHANGED <<node, rng, phase, idxLo, idxHi, ivars, zvars, evars, rvars>>

\* rangeStartSearchFn returns; the stop search begins
StartSearchReturn ==
    /\ phase = "start"
    /\ si >= sj
    /\ idxLo' = si
    /\ phase' = "stop"
    /\ si' = 0
    /\ sj' = Len(node)
    /\ UNCHANGED <<node, rng, idxHi, ivars, zvars, evars, rvars>>

\* rangeStopSearchFn: a probe, found is not BelowStop
StopSearchProbe ==
    /\ phase = "stop"
    /\ si < sj
    /\ Probe(~BelowStop(rng, key((si + sj) \div 2)))
    /\ UNCHANGED <<node, rng, phase, idxLo, idxHi, ivars, zvars, evars, rvars>>

\* rangeStopSearchFn returns
StopSearchReturn ==
    /\ phase = "stop"
    /\ si >= sj
    /\ idxHi' = si
    /\ phase' = "done"
    /\ UNCHANGED <<node, rng, si, sj, idxLo, ivars, zvars, evars, rvars>>

\* Map.IterRange: an iterator over the indexes [lo, hi) of the leaf
IterRange ==
    /\ phase = "done"
    /\ phase' = "iter"
    /\ cur' = idxLo
    /\ UNCHANGED <<node, rng, si, sj, idxLo, idxHi, yielded, eofs, zvars, evars, rvars>>

\* Next with the index c when the iterator stops before index stop
IterHasNext_StopIncluded(c, stop) == c <= stop

\* the iterator at index c has a key left before index stop
IterHasNext(c, stop) == c < stop

\* iter.Next yields the key at the current index and moves forward
IterNext ==
    /\ phase = "iter"
    /\ IterHasNext(cur, idxHi)
    /\ yielded' = Append(yielded, cur)
    /\ cur' = cur + 1
    /\ UNCHANGED <<node, rng, phase, si, sj, idxLo, idxHi, eofs, zvars, evars, rvars>>

\* iter.Next on the exhausted iterator returns io.EOF
IterNextEOF ==
    /\ phase = "iter"
    /\ ~IterHasNext(cur, idxHi)
    /\ eofs < MaxEOF
    /\ eofs' = eofs + 1
    /\ UNCHANGED <<node, rng, phase, si, sj, idxLo, idxHi, cur, yielded, zvars, evars, rvars>>

NextSearch ==
    \/ StartSearchProbe
    \/ StartSearchReturn
    \/ StopSearchProbe
    \/ StopSearchReturn
    \/ IterRange
    \/ IterNext
    \/ IterNextEOF

SpecSearch == InitSearch /\ [][NextSearch]_vars

\* the start search has returned
StartSearched == phase \in {"stop", "done", "iter"}

\* both searches have returned
Searched == phase \in {"done", "iter"}

----------------------------------------------------------------------------
(* Claims C8 - C10: the range search *)

\* the indexes of the keys of the leaf, counted from 0
KeyIdx == 0..(Len(node) - 1)

C9_StartIsSmallestAbove ==
    (StartSearched /\ IsAscending(node)) =>
        /\ idxLo \in 0..Len(node)
        /\ idxLo = Len(node) \/ AboveStart(rng, key(idxLo))
        /\ \A k \in KeyIdx : k < idxLo => ~AboveStart(rng, key(k))

----------------------------------------------------------------------------
(* Claim C11: the range iterator *)

\* the indexes lo, lo + 1, ..., hi - 1 in order; empty when lo >= hi
IndexesBetween(l, h) == [k \in 1..(IF h > l THEN h - l ELSE 0) |-> l + k - 1]

----------------------------------------------------------------------------
(* Claims C12 - C16: the bounds of a range on the tuples of the tests *)

\* the searches ran on the test leaf for the k-th range of the tests
SearchedTest(k) == Searched /\ node = tuples /\ rng = testRanges[k]

\* C12: on the leaf of the 14 test tuples the two searches return the
\* <<lo, hi>> of the table of TestRangeSearch for each of its nine ranges.
C12_TestLoHi ==
    \A k \in 1..Len(testRanges) :
        SearchedTest(k) => <<idxLo, idxHi>> = testLoHi[k]

\* the field f satisfies a cut of Start on its own: no value cut, or f above
\* the value, or equal to it and the cut inclusive
StartCutHolds(cut, f) ==
    \/ cut.Value = Nil
    \/ CompareField(f, cut.Value) > 0
    \/ CompareField(f, cut.Value) = 0 /\ cut.Inclusive

\* the same for a cut of Stop
StopCutHolds(cut, f) ==
    \/ cut.Value = Nil
    \/ CompareField(f, cut.Value) < 0
    \/ CompareField(f, cut.Value) = 0 /\ cut.Inclusive

\* C13: a range is a product of per-column predicates: a key that is above
\* Start and below Stop satisfies the value cut of every column on its own,
\* also when an earlier column lies strictly inside its bound.
C13_ProductOfColumnPredicates ==
    \A k \in KeyIdx :
        Contains(rng, key(k)) =>
            /\ \A c \in 1..Len(rng.Start) : StartCutHolds(rng.Start[c], key(k)[c])
            /\ \A c \in 1..Len(rng.Stop) : StopCutHolds(rng.Stop[c], key(k)[c])

\* the side has a value cut on column c
HasValueCut(cuts, c) == c <= Len(cuts) /\ cuts[c].Value # Nil

\* the indexes of the keys of the leaf that are members of the range
Members == {k \in KeyIdx : Contains(rng, key(k))}

\* C14: a key with a NULL field at a column is a member of no range with a
\* value cut on that column, in Start or in Stop; on the test tuples c0 < 1
\* and c1 < 1 have no member, c0 > 1 does not contain (NULL,9) and
\* 2 <= c1 <= 3 does not contain (9,NULL).
C14_NullFieldOutsideValueCut ==
    /\ \A k \in KeyIdx : \A c \in 1..2 :
          (key(k)[c] = Nil /\ (HasValueCut(rng.Start, c) \/ HasValueCut(rng.Stop, c)))
              => k \notin Members
    /\ (node = tuples /\ rng \in {testRanges[3], testRanges[7]}) => Members = {}
    /\ (node = tuples /\ rng = testRanges[2]) => 13 \notin Members
    /\ (node = tuples /\ rng = testRanges[8]) => 12 \notin Members

\* the range c1 > 1 of the tests on the leaf of the test tuples
IsTestC1Above1 == node = tuples /\ rng = testRanges[6]

\* C15 as claimed: for c1 > 1 with c0 unconstrained the tuples 0, 3, 6 and 9
\* of the tests are no members and the tuples 12 = (9,NULL) and 13 = (NULL,9)
\* are.
C15_C1Above1_Includes12And13 ==
    IsTestC1Above1 =>
        /\ Members \cap {0, 3, 6, 9} = {}
        /\ {12, 13} \subseteq Members

\* C15 as amended: the tuples 0, 3, 6, 9 and 12 = (9,NULL) are no members,
\* the tuple 13 = (NULL,9) is; the members are those TestRangeBounds lists.
C15_C1Above1_Excludes12 ==
    IsTestC1Above1 =>
        /\ Members \cap {0, 3, 6, 9, 12} = {}
        /\ 13 \in Members
        /\ Members = testInside[6]

C15_Witness ==
    /\ IsTestC1Above1
    /\ Searched
    /\ key(12)[2] = Nil
    /\ key(13)[1] = Nil

\* the tuple equals the cut at every constrained column of the side
EqualAtCuts(cuts, t) ==
    \A c \in 1..Len(cuts) :
        /\ cuts[c].Null => t[c] = Nil
        /\ cuts[c].Value # Nil => t[c] = cuts[c].Value

\* every value cut of the side is inclusive
AllInclusive(cuts) == \A c \in 1..Len(cuts) : cuts[c].Value # Nil => cuts[c].Inclusive

\* C16: for a key equal to the cut value at every constrained column of a
\* bound, AboveStart (BelowStop) holds iff every cut of the bound on those
\* columns is inclusive; one exclusive cut anywhere in the list excludes it.
C16_TieBreakAllInclusive ==
    \A k \in KeyIdx :
        /\ EqualAtCuts(rng.Start, key(k)) =>
              (AboveStart(rng, key(k)) <=> AllInclusive(rng.Start))
        /\ EqualAtCuts(rng.Stop, key(k)) =>
              (BelowStop(rng, key(k)) <=> AllInclusive(rng.Stop))

----------------------------------------------------------------------------
(* ZMask and ZCell.  A val.Cell is the sequence of its 17 bytes, byte k of *)
(* the source at position k + 1.                                           *)

\* the levels of a cell
Levels == 0..64

\* byte k (0 = least significant) of a word
ByteOf(w, k) ==
    LET bit(i) == IF (8 * k + i) \in w THEN 2 ^ i ELSE 0
    IN  bit(0) + bit(1) + bit(2) + bit(3) + bit(4) + bit(5) + bit(6) + bit(7)

\* binary.LittleEndian.PutUint64: the least significant byte first
PutUint64_LittleEndian(w) == [k \in 1..8 |-> ByteOf(w, k - 1)]

\* binary.BigEndian.PutUint64: the most significant byte first
PutUint64(w) == [k \in 1..8 |-> ByteOf(w, 8 - k)]

\* ZMask with the shift amount not doubled
ZMask_ShiftByLevel(lvl, zVal) ==
    IF lvl < 32
    THEN LET shamt == lvl % 256
         IN  <<lvl>> \o PutUint64(zVal[1]) \o PutUint64(Shl64(Shr64(zVal[2], shamt), shamt))
    ELSE LET shamt == (lvl - 32) % 256
         IN  <<lvl>> \o PutUint64(Shl64(Shr64(zVal[1], shamt), shamt)) \o PutUint64({})

\* lines 150-162; shamt is a byte
ZMask(lvl, zVal) ==
    IF lvl < 32
    THEN LET shamt == (lvl * 2) % 256
         IN  <<lvl>> \o PutUint64(zVal[1]) \o PutUint64(Shl64(Shr64(zVal[2], shamt), shamt))
    ELSE LET shamt == ((lvl - 32) * 2) % 256
         IN  <<lvl>> \o PutUint64(Shl64(Shr64(zVal[1], shamt), shamt)) \o PutUint64({})

\* the level without rounding up
ZCellLevel_RoundedDown(zMin, zMax) ==
    IF zMin[1] # zMax[1]
    THEN (((Len64(Xor64(zMin[1], zMax[1])) \div 2) % 256) + 32) % 256
    ELSE (Len64(Xor64(zMin[2], zMax[2])) \div 2) % 256

\* lines 172-177: the level of the cell of a bounding box, a byte
ZCellLevel(zMin, zMax) ==
    IF zMin[1] # zMax[1]
    THEN ((((Len64(Xor64(zMin[1], zMax[1])) + 1) \div 2) % 256) + 32) % 256
    ELSE ((Len64(Xor64(zMin[2], zMax[2])) + 1) \div 2) % 256

\* lines 166-179, for the bounding box b of the geometry
ZCell(b) ==
    LET zMin == ZValue(b[1], b[2])
        zMax == ZValue(b[3], b[4])
    IN  ZMask(ZCellLevel(zMin, zMax), zMin)

\* the ZVals ZMask is applied to: the corners of the box and all ones
ZArgs(b) == {ZRangeOf(b)[1], ZRangeOf(b)[2], <<MaxUint64, MaxUint64>>}

InitCell ==
    /\ bbox \in BBoxes
    /\ level \in Levels
    /\ zarg = ZRangeOf(bbox)[1]
    /\ cell = <<>>
    /\ fin = <<{}, {}>>
    /\ fout = [fn |-> "none", out |-> <<>>]
    /\ pts = << <<{}, {}>>, <<{}, {}>> >>
    /\ zs = <<>>
    /\ back = <<>>
    /\ stack = <<>>
    /\ ret = [arg |-> ZRangeOf(bbox), val |-> <<>>]
    /\ SearchIdle
    /\ ServerIdle

\* cell := ZCell(geometry with bounding box bbox)
CallZCell ==
    /\ cell = <<>>
    /\ cell' = ZCell(bbox)
    /\ zarg' = ZRangeOf(bbox)[1]
    /\ level' = ZCellLevel(ZRangeOf(bbox)[1], ZRangeOf(bbox)[2])
    /\ fout' = [fn |-> "ZCell", out |-> <<>>]
    /\ UNCHANGED <<fin, pts, zs, back, zvars, svars, rvars>>

\* cell := ZMask(level, z)
CallZMask ==
    /\ cell = <<>>
    /\ \E z \in ZArgs(bbox) :
          /\ zarg' = z
          /\ cell' = ZMask(level, z)
    /\ fout' = [fn |-> "ZMask", out |-> <<>>]
    /\ UNCHANGED <<level, fin, pts, zs, back, zvars, svars, rvars>>

NextCell ==
    \/ CallZCell
    \/ CallZMask

SpecCell == InitCell /\ [][NextCell]_vars

----------------------------------------------------------------------------
(* Claims C17, C18: ZCell and ZMask *)

\* ZCell has returned
ZCellReturned == fout.fn = "ZCell"

\* ZMask has returned
ZMaskReturned == fout.fn = "ZMask"

\* C17: ZCell returns ZMask(level, zMin) for the least level at which the
\* masks of zMin and zMax are equal: they are equal at the level chosen and
\* differ at every smaller one; the level is in 0..64, is 0 when zMin = zMax
\* and is at least 33 exactly when the high words of zMin and zMax differ.
C17_ZCellLeastCommonLevel ==
    ZCellReturned =>
        LET zMin == ZRangeOf(bbox)[1]
            zMax == ZRangeOf(bbox)[2]
            lvl == cell[1]
        IN  /\ lvl \in Levels
            /\ cell = ZMask(lvl, zMin)
            /\ ZMask(lvl, zMin) = ZMask(lvl, zMax)
            /\ \A l \in 0..(lvl - 1) : ZMask(l, zMin) # ZMask(l, zMax)
            /\ zMin = zMax => lvl = 0
            /\ lvl >= 33 <=> zMin[1] # zMax[1]

C17_Witness ==
    /\ ZCellReturned
    /\ ZRangeOf(bbox)[1][1] # ZRangeOf(bbox)[2][1]
    /\ cell[1] > 33
    /\ cell[1] < 64

\* the word held by the bytes from..from + 7 of a cell, most significant first
WordOfBytes(c, from) ==
    {i \in BitIdx : (c[from + 7 - (i \div 8)] \div (2 ^ (i % 8))) % 2 = 1}

\* C18: for a level in 0..64 ZMask returns 17 bytes: the level, the high word
\* and the low word, each most significant byte first; below level 32 the
\* high word is that of z and the low word that of z without its 2 * level
\* lowest bits, from level 32 on the low word is 0 and the high word that of
\* z without its 2 * (level - 32) lowest bits; level 64 gives sixteen 0 bytes.
C18_ZMaskLayout ==
    ZMaskReturned =>
        /\ Len(cell) = 17
        /\ \A k \in 1..17 : cell[k] \in 0..255
        /\ cell[1] = level
        /\ WordOfBytes(cell, 2) =
              (IF level < 32 THEN zarg[1] ELSE zarg[1] \ (0..(2 * (level - 32) - 1)))
        /\ WordOfBytes(cell, 10) =
              (IF level < 32 THEN zarg[2] \ (0..(2 * level - 1)) ELSE {})
        /\ cell[2] = ByteOf(WordOfBytes(cell, 2), 7)
        /\ cell[17] = ByteOf(WordOfBytes(cell, 10), 0)
        /\ level = 64 => \A k \in 2..17 : cell[k] = 0

C18_Witness ==
    /\ ZMaskReturned
    /\ level \in 33..63
    /\ zarg = <<MaxUint64, MaxUint64>>
    /\ cell[2] = 255
    /\ cell[9] # 255
    /\ cell[10] = 0

----------------------------------------------------------------------------
(* LexFloat and UnLexFloat applied to pairs of words *)

\* the words the functions are applied to, read as float64 bit patterns: the
\* corners of the cells of the windows, +0, -0, +Inf, -Inf, a NaN, the least
\* subnormals, 1 and -1
FloatWords ==
    SampleFloats \cup
        {{}, {63}, 52..62, 52..63, 51..62, {0}, {0, 63}, 52..61, (52..61) \cup {63}}

InitLex ==
    /\ fin \in FloatWords \X FloatWords
    /\ fout = [fn |-> "none", out |-> <<>>]
    /\ level = 0
    /\ zarg = <<{}, {}>>
    /\ cell = <<>>
    /\ bbox = <<{}, {}, {}, {}>>
    /\ pts = << <<{}, {}>>, <<{}, {}>> >>
    /\ zs = <<>>
    /\ back = <<>>
    /\ stack = <<>>
    /\ ret = [arg |-> ZRangeOf(bbox), val |-> <<>>]
    /\ SearchIdle
    /\ ServerIdle

\* LexFloat of both words, or of the results of UnLexFloat
CallLexFloat ==
    /\ fout.fn \in {"none", "UnLexFloat"}
    /\ LET arg == IF fout.fn = "none" THEN fin ELSE fout.out
       IN  fout' = [fn |-> IF fout.fn = "none" THEN "LexFloat" ELSE "UnLexFloat;LexFloat",
                    out |-> <<LexFloat(arg[1]), LexFloat(arg[2])>>]
    /\ UNCHANGED <<fin, level, zarg, cell, pts, zs, back, zvars, svars, rvars>>

\* UnLexFloat of both words, or of the results of LexFloat
CallUnLexFloat ==
    /\ fout.fn \in {"none", "LexFloat"}
    /\ LET arg == IF fout.fn = "none" THEN fin ELSE fout.out
       IN  fout' = [fn |-> IF fout.fn = "none" THEN "UnLexFloat" ELSE "LexFloat;UnLexFloat",
                    out |-> <<UnLexFloat(arg[1]), UnLexFloat(arg[2])>>]
    /\ UNCHANGED <<fin, level, zarg, cell, pts, zs, back, zvars, svars, rvars>>

NextLex ==
    \/ CallLexFloat
    \/ CallUnLexFloat

SpecLex == InitLex /\ [][NextLex]_vars

----------------------------------------------------------------------------
(* Claims C19, C20: LexFloat and UnLexFloat *)

\* the magnitude of a float64
FloatMag(f) == f \ {63}

\* f1 <= f2 as float64 values, neither one a NaN; -0 and +0 are equal
FloatLeq(f1, f2) ==
    IF FloatMag(f1) = {} /\ FloatMag(f2) = {} THEN TRUE
    ELSE IF 63 \in f1 /\ 63 \notin f2 THEN TRUE
    ELSE IF 63 \notin f1 /\ 63 \in f2 THEN FALSE
    ELSE IF 63 \in f1 THEN Leq64(FloatMag(f2), FloatMag(f1))
    ELSE Leq64(FloatMag(f1), FloatMag(f2))

\* C19 as claimed: LexFloat preserves the order of the floats: for f1 <= f2, neither a
\* NaN and -0 equal to +0, LexFloat(f1) <= LexFloat(f2) as unsigned integers.
C19_LexFloatPreservesOrder ==
    (/\ fout.fn = "LexFloat"
     /\ ~IsNaN(fin[1]) /\ ~IsNaN(fin[2])
     /\ FloatLeq(fin[1], fin[2])) =>
        Leq64(fout.out[1], fout.out[2])

\* C19 as amended: the same for all such f1 <= f2 but the pair f1 = +0,
\* f2 = -0, which compare equal as floats while LexFloat(-0) < LexFloat(+0).
C19_LexFloatPreservesOrder_ZeroesOrdered ==
    (/\ fout.fn = "LexFloat"
     /\ ~IsNaN(fin[1]) /\ ~IsNaN(fin[2])
     /\ FloatLeq(fin[1], fin[2])
     /\ ~(fin[1] = {} /\ fin[2] = {63})) =>
        Leq64(fout.out[1], fout.out[2])

C19_Witness ==
    /\ fout.fn = "LexFloat"
    /\ 63 \in fin[1] /\ 63 \in fin[2]
    /\ ~IsNaN(fin[1]) /\ ~IsNaN(fin[2])
    /\ fin[1] # fin[2]
    /\ FloatLeq(fin[1], fin[2])
    /\ Less64(fout.out[1], fout.out[2])

\* C20: UnLexFloat is the inverse of LexFloat on every word, in both orders:
\* UnLexFloat(LexFloat(b)) = b and LexFloat(UnLexFloat(u)) = u.
C20_UnLexFloatInverse ==
    fout.fn \in {"LexFloat;UnLexFloat", "UnLexFloat;LexFloat"} => fout.out = fin

C20_Witness ==
    /\ fout.fn = "LexFloat;UnLexFloat"
    /\ IsNaN(fin[1]) /\ 63 \in fin[1]
    /\ 63 \notin fin[2] /\ FloatMag(fin[2]) # {}
    /\ fout.out = fin

----------------------------------------------------------------------------
(* ZValue and UnZValue applied to two points *)

\* the coordinates of the points: in each bit window the lex codes with one
\* bit of the window set, the bits below all 0 or all 1
PointWords ==
    {UnLexFloat(LexCoord(wl, w, fill)) : wl \in WinLos, w \in {1, 2}, fill \in BOOLEAN}

InitPoint ==
    /\ pts \in (PointWords \X PointWords) \X (PointWords \X PointWords)
    /\ zs = <<>>
    /\ back = <<>>
    /\ level = 0
    /\ zarg = <<{}, {}>>
    /\ cell = <<>>
    /\ fin = <<{}, {}>>
    /\ fout = [fn |-> "none", out |-> <<>>]
    /\ bbox = <<{}, {}, {}, {}>>
    /\ stack = <<>>
    /\ ret = [arg |-> ZRangeOf(bbox), val |-> <<>>]
    /\ SearchIdle
    /\ ServerIdle

\* zs := ZValue(p), ZValue(q)
CallZValue ==
    /\ zs = <<>>
    /\ zs' = << ZValue(pts[1][1], pts[1][2]), ZValue(pts[2][1], pts[2][2]) >>
    /\ UNCHANGED <<pts, back, level, zarg, cell, fin, fout, zvars, svars, rvars>>

\* back := UnZValue of both ZVals
CallUnZValue ==
    /\ zs # <<>>
    /\ back = <<>>
    /\ back' = << UnZValue(zs[1]), UnZValue(zs[2]) >>
    /\ UNCHANGED <<pts, zs, level, zarg, cell, fin, fout, zvars, svars, rvars>>

NextPoint ==
    \/ CallZValue
    \/ CallUnZValue

SpecPoint == InitPoint /\ [][NextPoint]_vars

----------------------------------------------------------------------------
(* Claims C21, C22: ZValue and UnZValue *)

\* the two 32-bit halves of a word, high half first
Halves(w) == << Shr64(w, 32), And64(w, MaskFFFFFFFF) >>

\* C21: UnZValue inverts ZValue: UnZValue(ZValue(p)) = p for both points;
\* UnInterleaveUint64 gives back the two arguments of InterleaveUInt64, and
\* every argument ZValue passes to InterleaveUInt64 is below 2^32.
C21_UnZValueInvertsZValue ==
    /\ back # <<>> => back = pts
    /\ \A k \in 1..2 :
          /\ \A a \in ZValueArgs(pts[k][1], pts[k][2]) : a \subseteq 0..31
          /\ \A h \in 1..2 :
                LET x == Halves(LexFloat(pts[k][1]))[h]
                    y == Halves(LexFloat(pts[k][2]))[h]
                IN  UnInterleaveUint64(InterleaveUInt64(x, y)) = <<x, y>>

C21_Witness ==
    /\ back # <<>>
    /\ back = pts
    /\ pts[1][1] # pts[1][2]
    /\ (0..30) \subseteq LexFloat(pts[1][1])
    /\ zs[1][1] # {} /\ zs[1][2] # {}

\* C22: ZValue is monotone in each coordinate: when the lex codes of p are
\* at most those of q in X and in Y, ZValue(p) <= ZValue(q) in the order of
\* (high word, low word); so zMin <= zMax for the corners of a bounding box.
C22_ZValueMonotone ==
    (/\ zs # <<>>
     /\ Leq64(LexFloat(pts[1][1]), LexFloat(pts[2][1]))
     /\ Leq64(LexFloat(pts[1][2]), LexFloat(pts[2][2]))) =>
        ZLeq(zs[1], zs[2])

C22_Witness ==
    /\ zs # <<>>
    /\ Less64(LexFloat(pts[1][1]), LexFloat(pts[2][1]))
    /\ Less64(LexFloat(pts[1][2]), LexFloat(pts[2][2]))
    /\ zs[1][1] = zs[2][1]
    /\ ZLess(zs[1], zs[2])

(***************************************************************************)
(* remotesrv.Server: NewServer, Serve and GracefulStop.  Serve and         *)
(* GracefulStop are each called once, in any order and concurrently; a     *)
(* net.Listen succeeds or fails; a goroutine started by Serve runs from    *)
(* its go statement on.                                                    *)
(***************************************************************************)

\* NewServer: s.wg.Add(2), and s.wg.Add(2) again when the ports differ
NewServerWg(same) == 2 + (IF same THEN 0 ELSE 2)

\* the goroutines Serve starts for a Server whose ports are equal or differ
Started(same) ==
    IF same THEN {"httpServe", "httpStop"} ELSE Goroutines

\* the Server NewServer returns, before Serve and GracefulStop are called
InitServer ==
    /\ samePort \in BOOLEAN
    /\ wg = NewServerWg(samePort)
    /\ stopChan = "open"
    /\ httpSrv = "new"
    /\ grpcSrv = "new"
    /\ gos = [g \in Goroutines |-> "unstarted"]
    /\ servePc = "listenHttp"
    /\ stopPc = "close"
    /\ bbox = <<{}, {}, {}, {}>>
    /\ stack = <<>>
    /\ ret = [arg |-> ZRangeOf(bbox), val |-> <<>>]
    /\ EncodeIdle
    /\ SearchIdle

\* Serve: net.Listen for the http port; an error is returned at once
ServeListenHttp ==
    /\ servePc = "listenHttp"
    /\ \E ok \in BOOLEAN :
          servePc' = IF ~ok THEN "returnedErr"
                     ELSE IF samePort THEN "goHttpServe" ELSE "listenGrpc"
    /\ UNCHANGED <<samePort, wg, stopChan, httpSrv, grpcSrv, gos, stopPc>>
    /\ UNCHANGED <<zvars, svars, evars>>

\* Serve: net.Listen for the grpc port; on an error the http listener is
\* closed and the error returned
ServeListenGrpc ==
    /\ servePc = "listenGrpc"
    /\ \E ok \in BOOLEAN :
          servePc' = IF ok THEN "goGrpcServe" ELSE "returnedErr"
    /\ UNCHANGED <<samePort, wg, stopChan, httpSrv, grpcSrv, gos, stopPc>>
    /\ UNCHANGED <<zvars, svars, evars>>

\* Serve: one go statement; the goroutine g starts at position at
Go(pc, g, at, nextPc) ==
    /\ servePc = pc
    /\ gos' = [gos EXCEPT ![g] = at]
    /\ servePc' = nextPc
    /\ UNCHANGED <<samePort, wg, stopChan, httpSrv, grpcSrv, stopPc>>
    /\ UNCHANGED <<zvars, svars, evars>>

ServeGoGrpcServe == Go("goGrpcServe", "grpcServe", "serve", "goGrpcStop")

ServeGoGrpcStop == Go("goGrpcStop", "grpcStop", "receive", "goHttpServe")

ServeGoHttpServe == Go("goHttpServe", "httpServe", "serve", "goHttpStop")

ServeGoHttpStop == Go("goHttpStop", "httpStop", "receive", "wait")

\* Serve: s.wg.Wait() and return nil
ServeWait ==
    /\ servePc = "wait"
    /\ wg = 0
    /\ servePc' = "returned"
    /\ UNCHANGED <<samePort, wg, stopChan, httpSrv, grpcSrv, gos, stopPc>>
    /\ UNCHANGED <<zvars, svars, evars>>

\* the deferred s.wg.Done() of goroutine g, as g exits
WgDone(g) ==
    /\ gos' = [gos EXCEPT ![g] = "exited"]
    /\ wg' = wg - 1

\* s.grpcSrv.Serve returns once the grpc server is stopped
GrpcServeReturn ==
    /\ gos["grpcServe"] = "serve"
    /\ grpcSrv = "stopped"
    /\ gos' = [gos EXCEPT !["grpcServe"] = "log"]
    /\ UNCHANGED <<samePort, wg, stopChan, httpSrv, grpcSrv, servePc, stopPc>>
    /\ UNCHANGED <<zvars, svars, evars>>

\* s.grpcSrv.Serve returns an error of its own, the server not stopped
GrpcServeFail ==
    /\ gos["grpcServe"] = "serve"
    /\ grpcSrv = "new"
    /\ gos' = [gos EXCEPT !["grpcServe"] = "log"]
    /\ UNCHANGED <<samePort, wg, stopChan, httpSrv, grpcSrv, servePc, stopPc>>
    /\ UNCHANGED <<zvars, svars, evars>>

\* the grpc server goroutine logs that it is done and exits
GrpcServeExit ==
    /\ gos["grpcServe"] = "log"
    /\ WgDone("grpcServe")
    /\ UNCHANGED <<samePort, stopChan, httpSrv, grpcSrv, servePc, stopPc>>
    /\ UNCHANGED <<zvars, svars, evars>>

\* <-s.stopChan returns once the channel is closed; s.grpcSrv.GracefulStop()
GrpcStopReceive ==
    /\ gos["grpcStop"] = "receive"
    /\ stopChan = "closed"
    /\ grpcSrv' = "stopped"
    /\ gos' = [gos EXCEPT !["grpcStop"] = "stopping"]
    /\ UNCHANGED <<samePort, wg, stopChan, httpSrv, servePc, stopPc>>
    /\ UNCHANGED <<zvars, svars, evars>>

\* s.grpcSrv.GracefulStop() returns and the stop waiter exits
GrpcStopReturn ==
    /\ gos["grpcStop"] = "stopping"
    /\ WgDone("grpcStop")
    /\ UNCHANGED <<samePort, stopChan, httpSrv, grpcSrv, servePc, stopPc>>
    /\ UNCHANGED <<zvars, svars, evars>>

\* s.httpSrv.Serve returns http.ErrServerClosed once Shutdown was called
HttpServeReturn ==
    /\ gos["httpServe"] = "serve"
    /\ httpSrv = "shutdown"
    /\ gos' = [gos EXCEPT !["httpServe"] = "log"]
    /\ UNCHANGED <<samePort, wg, stopChan, httpSrv, grpcSrv, servePc, stopPc>>
    /\ UNCHANGED <<zvars, svars, evars>>

\* s.httpSrv.Serve returns another error, Shutdown not called
HttpServeFail ==
    /\ gos["httpServe"] = "serve"
    /\ httpSrv = "new"
    /\ gos' = [gos EXCEPT !["httpServe"] = "log"]
    /\ UNCHANGED <<samePort, wg, stopChan, httpSrv, grpcSrv, servePc, stopPc>>
    /\ UNCHANGED <<zvars, svars, evars>>

\* the http server goroutine logs that it is done and exits
HttpServeExit ==
    /\ gos["httpServe"] = "log"
    /\ WgDone("httpServe")
    /\ UNCHANGED <<samePort, stopChan, httpSrv, grpcSrv, servePc, stopPc>>
    /\ UNCHANGED <<zvars, svars, evars>>

\* <-s.stopChan returns once the channel is closed; s.httpSrv.Shutdown(ctx)
HttpStopReceive ==
    /\ gos["httpStop"] = "receive"
    /\ stopChan = "closed"
    /\ httpSrv' = "shutdown"
    /\ gos' = [gos EXCEPT !["httpStop"] = "stopping"]
    /\ UNCHANGED <<samePort, wg, stopChan, grpcSrv, servePc, stopPc>>
    /\ UNCHANGED <<zvars, svars, evars>>

\* s.httpSrv.Shutdown returns and the stop waiter exits
HttpStopReturn ==
    /\ gos["httpStop"] = "stopping"
    /\ WgDone("httpStop")
    /\ UNCHANGED <<samePort, stopChan, httpSrv, grpcSrv, servePc, stopPc>>
    /\ UNCHANGED <<zvars, svars, evars>>

\* GracefulStop: close(s.stopChan)
GracefulStopClose ==
    /\ stopPc = "close"
    /\ stopChan' = "closed"
    /\ stopPc' = "wait"
    /\ UNCHANGED <<samePort, wg, httpSrv, grpcSrv, gos, servePc>>
    /\ UNCHANGED <<zvars, svars, evars>>

\* GracefulStop: s.wg.Wait() and return
GracefulStopWait ==
    /\ stopPc = "wait"
    /\ wg = 0
    /\ stopPc' = "returned"
    /\ UNCHANGED <<samePort, wg, stopChan, httpSrv, grpcSrv, gos, servePc>>
    /\ UNCHANGED <<zvars, svars, evars>>

\* the steps the code takes whenever it can take them
ServerProgress ==
    \/ ServeListenHttp
    \/ ServeListenGrpc
    \/ ServeGoGrpcServe
    \/ ServeGoGrpcStop
    \/ ServeGoHttpServe
    \/ ServeGoHttpStop
    \/ ServeWait
    \/ GrpcServeReturn
    \/ GrpcServeExit
    \/ GrpcStopReceive
    \/ GrpcStopReturn
    \/ HttpServeReturn
    \/ HttpServeExit
    \/ HttpStopReceive
    \/ HttpStopReturn
    \/ GracefulStopClose
    \/ GracefulStopWait

NextServer ==
    \/ ServerProgress
    \/ GrpcServeFail
    \/ HttpServeFail

SpecServer == InitServer /\ [][NextServer]_vars

\* the calls and the goroutines are scheduled: a step of the code that stays
\* possible is taken; a server failing on its own is not forced
SpecServerFair == SpecServer /\ WF_vars(ServerProgress)

\* Serve has returned, nil or an error
ServeReturned == servePc \in {"returned", "returnedErr"}

\* GracefulStop has returned
GracefulStopReturned == stopPc = "returned"

\* the goroutines that have not yet called Done
Live == {g \in Goroutines : gos[g] # "exited"}

\* C23: Serve and GracefulStop, each called once, both eventually return,
\* whether the ports are equal or differ and whether or not the listens of
\* Serve succeed; the WaitGroup counter never goes negative and is zero only
\* after every server goroutine and every stop waiter has exited.
C23_ServeAndGracefulStopReturn ==
    /\ [](wg >= 0)
    /\ [](wg = 0 => \A g \in Started(samePort) : gos[g] = "exited")
    /\ <>(ServeReturned /\ GracefulStopReturned)

\* the WaitGroup counter never goes negative
C23_CounterNeverNegative == wg >= 0

\* the counter is zero only after every goroutine of the Server has exited
C23_ZeroOnlyAfterAllExited ==
    wg = 0 => \A g \in Started(samePort) : gos[g] = "exited"

\* once every go statement of Serve has run, the counter is the number of
\* goroutines still to call Done
C23_CounterCountsLiveGoroutines ==
    servePc \in {"wait", "returned"} => wg = Cardinality(Live \cap Started(samePort))

\* when no listen fails, both calls return
C23_BothReturnWhenListensSucceed ==
    <>(servePc = "returnedErr" \/ (ServeReturned /\ GracefulStopReturned))

\* a listen of Serve failed and GracefulStop waits on a counter that no
\* goroutine will decrement
C23_StopBlockedAfterFailedListen ==
    /\ servePc = "returnedErr"
    /\ stopPc = "wait"
    /\ wg = NewServerWg(samePort)

====
